---- MODULE Spec2Model ----
(***************************************************************************)
(* The checkpointed crawl state machine of chrome-crawl:                   *)
(*   scripts/batch_crawl.py  (crawl / retry over a URL list)               *)
(*   scripts/ima_crawl.py    (list / crawl / retry over an IMA share)      *)
(* The manifest file, the in-memory manifest of the running command, the   *)
(* work queue and the position of the driver loop are the state.  One      *)
(* command runs at a time (section 5 of the design: single-threaded); it   *)
(* can be interrupted between any two steps, also inside save_manifest.    *)
(***************************************************************************)
EXTENDS Integers, Sequences, FiniteSets, TLC

\* ------------------------------------------------------------------ bounds
NumUrls == 2            \* distinct article URLs in the universe
MaxLen == 2             \* longest URL file / API listing
MaxRuns == 2            \* crawl and retry commands started in one behaviour
MaxLists == 2           \* IMA list phases started in one behaviour
MaxElems == 2           \* elements of a page's main-content container

\* --------------------------------------------------------------- constants
MAX_RETRIES == 3
BACKOFF_BASE == 5
RATE_LIMIT_PAUSE == 60

URLS == 1..NumUrls
NoUrl == 0              \* an empty url / source_path
Junk == -1              \* a blank line, a comment line or a non-http line
Done == {"downloaded", "extracted"}
Statuses == {"pending", "downloaded", "extracted", "failed"}
Limits == {0, 1}
READY == 2              \* media_state of an IMA article that can be crawled
NOT_READY == 0

Min(a, b) == IF a < b THEN a ELSE b
Range(s) == {s[i] : i \in DOMAIN s}
SeqsUpTo(S, n) == UNION {[1..k -> S] : k \in 0..n}

VARIABLES
    provider,    \* "batch" (batch_crawl.py) or "ima" (ima_crawl.py)
    pc,          \* position of the running command; "idle" when none runs
    ret,         \* where the command continues after the save in progress
    disk,        \* manifest.json: the records of the last complete write
    torn,        \* manifest.json is truncated / partly written
    cmd,         \* the command started last: "crawl", "retry", "list"; "none" before
    foreign,     \* what another process last wrote to manifest.json; <<>> if none did
    articles,    \* the in-memory manifest of the running command
    existing,    \* manifest.json as it was when the command started
    urls,        \* parse_urls(args.source); <<>> without a source
    args_source, \* args.source of a crawl with a source
    force,       \* args.force
    limit,       \* args.limit
    to_process,  \* the work queue: indices into articles, in queue order
    idx,         \* 1-based position in to_process
    attempt,     \* download_raw_html_cdp's loop variable
    anti,        \* anti-bot pages answered in the current download
    fails,       \* failed attempts (exit code, timeout, error, short body) in it
    raw_html,    \* the current download returned a page
    stats,       \* [ok, failed] counters of the run
    exit,        \* how the last command ended; "running" while one runs;
                 \* "interrupted_after_checkpoint": killed in the loop after the
                 \* checkpoint of a queue record of this run
    runs,        \* crawl and retry commands started so far
    lists,       \* IMA list phases started so far
    slept,       \* seconds the last pass of the download loop slept
    cdp,         \* what the readiness check of the fetch endpoint found in the
                 \* last command
    page,        \* extract_article: the raw markup given to it
    faults,      \* extract_article: what fails in it and below it
    content,     \* extract_content_soup's cleaned content tree
    ext_result,  \* extract_article's result
    record,      \* the manifest record of the article being extracted
    raw_imgs,    \* the src of each <img> as the page's markup has it
    soup_imgs,   \* download_images: the src of each <img> of the tree, in order
    assets,      \* the files of assets_dir that exist and are not empty
    mpc,         \* download_images: position; "idle" between two calls
    img_pos,     \* 1-based index of the <img> at hand
    img_counter, \* download_images: img_counter
    img_attempt, \* requests made for the image at hand that failed
    img_resp,    \* the answer to the last request
    img_stats,   \* download_images: stats
    img_reqs,    \* network requests issued in the current call
    img_run,     \* calls of download_images started on this tree
    img_names,   \* the filename the current call gave each <img>
    img_data,    \* len(data) of what the current call wrote for each <img>; 0 if nothing
    first_run,   \* soup_imgs, img_names and stats as the first call left them
    content_soup, \* html_to_markdown: the tree to render
    md_body,     \* html_to_markdown: the Markdown after the header
    rendered,    \* html_to_markdown has returned
    total,       \* the driver loop's pacing: len(to_process)
    qidx,        \* 0-based index of the queue record at hand (idx of the source)
    ppc,         \* "top": at the top of the loop body; "fetch": about to invoke
                 \* the Fetcher; "done": the loop is over
    paused,      \* long pauses taken in this run
    last_outcome, \* how the record before this one ended
    delayed      \* seconds of pacing delay slept after the record before this one

\* the state of one extract_article call, checked on its own (SpecExtract)
extractor == <<page, faults, content, ext_result, record>>

\* the state of the crawl commands
driver == <<provider, pc, ret, disk, torn, articles, existing, urls, args_source, force, limit,
            to_process, idx, attempt, anti, fails, raw_html, stats, exit, runs, lists,
            slept, cdp, foreign, cmd>>

\* the state of download_images, called again and again on one tree
media == <<raw_imgs, soup_imgs, assets, mpc, img_pos, img_counter, img_attempt, img_resp,
           img_stats, img_reqs, img_run, img_names, img_data, first_run>>

\* the state of one html_to_markdown call
render == <<content_soup, md_body, rendered>>

\* the sleeps of one run of the driver loop
pacing == <<total, qidx, ppc, paused, last_outcome, delayed>>

vars == <<driver, extractor, media, render, pacing>>

\* ------------------------------------------------------- manifest records
\* batch_crawl.py:148-155; media_state is an IMA field (ima_crawl.py:180),
\* NOT_READY in batch records, where nothing reads it.
NewRecord(i, u) ==
    [seq |-> i, url |-> u, title |-> "", status |-> "pending",
     dir_name |-> "", errors |-> <<>>, media_state |-> NOT_READY]

\* ima_crawl.py:176-186 and 208-209
ImaRecord(i, item) ==
    [seq |-> i, url |-> item.url, title |-> "Untitled", status |-> "pending",
     dir_name |-> "", errors |-> <<>>, media_state |-> item.ms]

\* ---------------------------------------------------------------- parse_urls
DedupKeepsAll(lines, seen) ==
    LET url(l) == l # Junk
    IN  SelectSeq(lines, url)

RECURSIVE Dedup(_, _)
Dedup(lines, seen) ==
    IF lines = <<>> THEN <<>>
    ELSE IF Head(lines) = Junk \/ Head(lines) \in seen
         THEN Dedup(Tail(lines), seen)
         ELSE <<Head(lines)>> \o Dedup(Tail(lines), seen \cup {Head(lines)})

\* batch_crawl.py:96-127: a source that is a URL, or the lines of a file
parse_urls(source) ==
    IF source.single THEN <<source.url>> ELSE Dedup(source.lines, {})

\* no source argument
NoSource == [single |-> FALSE, url |-> NoUrl, lines |-> <<>>]

Sources ==
    {[single |-> TRUE, url |-> u, lines |-> <<>>] : u \in URLS}
    \cup {[single |-> FALSE, url |-> NoUrl, lines |-> l] :
             l \in SeqsUpTo(URLS \cup {Junk}, MaxLen)}

\* ------------------------------------------------- build_manifest_from_urls
HasUrl(manifest, u) ==
    u # NoUrl /\ \E i \in DOMAIN manifest : manifest[i].url = u

\* the dict comprehension of batch_crawl.py:138 keeps the last record of a URL
existing_by_url(manifest, u) ==
    manifest[CHOOSE i \in DOMAIN manifest :
                /\ manifest[i].url = u
                /\ \A j \in DOMAIN manifest : manifest[j].url = u => j <= i]

MergedSeqOffByOne(idx0) == idx0 - 1

\* entry["seq"] = idx + 1 (idx0 is the 1-based position)
MergedSeq(idx0) == idx0

build_manifest_resets(us, old) ==
    [i \in 1..Len(us) |->
        IF HasUrl(old, us[i])
        THEN [existing_by_url(old, us[i]) EXCEPT
                 !.seq = i, !.status = "pending", !.errors = <<>>]
        ELSE NewRecord(i, us[i])]

build_manifest_keeps_rest(us, old) ==
    LET rest(a) == \A i \in DOMAIN us : us[i] # a.url
    IN  [i \in 1..Len(us) |->
            IF HasUrl(old, us[i])
            THEN [existing_by_url(old, us[i]) EXCEPT !.seq = i]
            ELSE NewRecord(i, us[i])] \o SelectSeq(old, rest)

\* batch_crawl.py:130-157
build_manifest_from_urls(us, old) ==
    [i \in 1..Len(us) |->
        IF HasUrl(old, us[i])
        THEN [existing_by_url(old, us[i]) EXCEPT !.seq = MergedSeq(i)]
        ELSE NewRecord(i, us[i])]

\* ------------------------------------------------------------ the work queue
QueueIgnoresStatus(a, f) == a.url # NoUrl

QueueIgnoresMediaState(a, f) ==
    /\ a.url # NoUrl
    /\ f \/ a.status \notin Done

\* batch_crawl.py:288-293 and ima_crawl.py:306-313: is record a queued?
Queued(a, f) ==
    /\ provider = "ima" => a.media_state = READY
    /\ a.url # NoUrl
    /\ f \/ a.status \notin Done

\* batch_crawl.py:295-296, ima_crawl.py:315-316
Truncate(q, l) == IF l > 0 THEN SubSeq(q, 1, Min(l, Len(q))) ELSE q

BuildQueue(manifest, f, l) ==
    LET keep(i) == Queued(manifest[i], f)
    IN  Truncate(SelectSeq([i \in 1..Len(manifest) |-> i], keep), l)

cur == to_process[idx]

\* ------------------------------------------------------------ wechat_extract
\* The elements of the main-content container, flat: the tag, the class (the
\* two widget classes or another), whether the element is or lies in an
\* element styled hidden, and its data-title / name attribute.
Tags == {"iframe", "section", "mpvoice"}
Classes == {"video_iframe", "audio_iframe", "none"}
Labels == {"", "L"}
Elements == [tag : Tags, class : Classes, hidden : BOOLEAN, label : Labels]

\* a page: metadata extraction returns or raises; the container is found by
\* id, by class, or not at all
Pages ==
    [meta : {"ok", "raises"}, container : {"id", "class", "none"},
     elems : SeqsUpTo(Elements, MaxElems)]

\* what fails in one extract_article call: extract_content_soup, the mkdir of
\* the article directory, the three file writes, the image download
Faults ==
    [content : BOOLEAN, mkdir : BOOLEAN, raw : BOOLEAN, img : BOOLEAN,
     html : BOOLEAN, md : BOOLEAN]

\* wechat_extract.py:134 and 147, 154: the elements the two passes look for
IsVideo(e) == e.class = "video_iframe"
IsAudio(e) == e.class = "audio_iframe" \/ e.tag = "mpvoice"

\* wechat_extract.py:123-128 with the texts of 138 and 149, 156
Placeholder(css, e) ==
    [tag |-> "p", class |-> css, hidden |-> FALSE,
     label |-> IF e.label = "" THEN "unnamed" ELSE e.label]

\* wechat_extract.py:102-107: script, style, link, meta, noscript, iframe go
_remove_unwanted_tags(c) ==
    LET kept(e) == e.tag # "iframe"
    IN  SelectSeq(c, kept)

\* wechat_extract.py:92-99
_remove_hidden_elements(c) ==
    LET shown(e) == ~e.hidden
    IN  SelectSeq(c, shown)

\* wechat_extract.py:131-141
_extract_video_info(c) ==
    [i \in DOMAIN c |->
        IF IsVideo(c[i]) THEN Placeholder("video-placeholder", c[i]) ELSE c[i]]

\* wechat_extract.py:144-160: by class, then the remaining <mpvoice> tags
_extract_audio_info(c) ==
    [i \in DOMAIN c |->
        IF IsAudio(c[i]) THEN Placeholder("audio-placeholder", c[i]) ELSE c[i]]

\* wechat_extract.py:163-179
extract_content_soup(p) ==
    IF p.container = "none" THEN <<>>
    ELSE _extract_audio_info(_extract_video_info(
             _remove_hidden_elements(_remove_unwanted_tags(p.elems))))

Note(failed, text) == IF failed THEN <<text>> ELSE <<>>

NoResult == [done |-> FALSE, raised |-> FALSE, title |-> "", dir_name |-> "",
             errors |-> <<>>]

\* wechat_extract.py:496-586.  raised: an exception left the function (the
\* mkdir of line 548 stands outside every try block).
extract_article(p, f) ==
    LET meta_err == Note(p.meta = "raises", "metadata extraction")
        title == IF p.meta = "raises" THEN "Untitled" ELSE "T"
    IN  IF f.content
        THEN [done |-> TRUE, raised |-> FALSE, title |-> title, dir_name |-> "",
              errors |-> meta_err \o <<"content extraction">>]
        ELSE IF f.mkdir
        THEN [done |-> TRUE, raised |-> TRUE, title |-> title, dir_name |-> "D",
              errors |-> meta_err]
        ELSE [done |-> TRUE, raised |-> FALSE, title |-> title, dir_name |-> "D",
              errors |-> meta_err \o Note(f.raw, "save raw.html")
                                 \o Note(f.img, "image download")
                                 \o Note(f.html, "build HTML")
                                 \o Note(f.md, "build Markdown")]

\* ------------------------------------------------------------------- Init
NoProcess ==
    /\ pc = "idle" /\ ret = "none"
    /\ articles = <<>> /\ existing = <<>> /\ urls = <<>> /\ args_source = NoSource
    /\ force = FALSE /\ limit = 0
    /\ to_process = <<>> /\ idx = 0
    /\ attempt = 0 /\ slept = 0 /\ anti = 0 /\ fails = 0 /\ raw_html = FALSE
    /\ stats = [ok |-> 0, failed |-> 0]

\* no extract_article call is being followed
ExtractorIdle ==
    /\ page = [meta |-> "ok", container |-> "id", elems |-> <<>>]
    /\ faults = [content |-> FALSE, mkdir |-> FALSE, raw |-> FALSE, img |-> FALSE,
                 html |-> FALSE, md |-> FALSE]
    /\ content = <<>>
    /\ ext_result = NoResult
    /\ record = NewRecord(1, 1)

InitDriver ==
    /\ provider \in {"batch", "ima"}
    /\ NoProcess
    /\ disk = <<>> /\ torn = FALSE /\ foreign = <<>> /\ cmd = "none"
    /\ exit = "none" /\ runs = 0 /\ lists = 0
    /\ cdp = "unchecked"

\* download_images is not running and has no tree
NoStats == [total |-> 0, ok |-> 0, failed |-> 0, skipped |-> 0, bytes |-> 0]

NoFirstRun == [imgs |-> <<>>, names |-> <<>>, stats |-> NoStats]

MediaIdle ==
    /\ raw_imgs = <<>> /\ soup_imgs = <<>> /\ assets = {} /\ mpc = "idle"
    /\ img_pos = 0 /\ img_counter = 0 /\ img_attempt = 0 /\ img_resp = "none"
    /\ img_stats = NoStats /\ img_reqs = 0 /\ img_run = 0
    /\ img_names = <<>> /\ img_data = <<>> /\ first_run = NoFirstRun

\* html_to_markdown is not running and has no tree
RenderIdle == content_soup = <<>> /\ md_body = <<>> /\ rendered = FALSE

\* no driver loop is being paced
PacingIdle ==
    /\ total = 0 /\ qidx = 0 /\ ppc = "done" /\ paused = 0
    /\ last_outcome = "none" /\ delayed = 0

Init == InitDriver /\ ExtractorIdle /\ MediaIdle /\ RenderIdle /\ PacingIdle

\* load_manifest on a truncated file: json.loads raises, the command dies
\* (batch_crawl.py:78, ima_crawl.py:107)
LoadError ==
    IF exit = "interrupted_after_checkpoint" THEN "resume_load_error" ELSE "load_error"

\* the command ends (return, sys.exit or an uncaught exception): its memory goes
End(how) ==
    /\ pc' = "idle" /\ ret' = "none"
    /\ articles' = <<>> /\ existing' = <<>> /\ urls' = <<>> /\ args_source' = NoSource
    /\ force' = FALSE /\ limit' = 0
    /\ to_process' = <<>> /\ idx' = 0
    /\ attempt' = 0 /\ slept' = 0 /\ anti' = 0 /\ fails' = 0 /\ raw_html' = FALSE
    /\ stats' = [ok |-> 0, failed |-> 0]
    /\ exit' = how

\* ---------------------------------------------------- save_manifest, by halves
\* batch_crawl.py:82-89, ima_crawl.py:111-117: Path.write_text opens the file
\* for writing, which truncates it, and then writes the serialization.
SaveBegin ==
    /\ pc = "save"
    /\ pc' = "saving"
    /\ torn' = TRUE
    /\ disk' = <<>>
    /\ UNCHANGED <<extractor, media, render, pacing, foreign, cmd, cdp, provider, ret, articles, existing, urls, args_source, force, limit,
                   to_process, idx, attempt, slept, anti, fails, raw_html, stats, exit, runs, lists>>

WrittenUnlessChanged(arts) == IF foreign # <<>> THEN foreign ELSE arts

\* json.dumps(articles): the file gets the caller's list, nothing is read
Written(arts) == arts

\* the write completes; the caller goes on from where it called save_manifest
SaveEnd ==
    /\ pc = "saving"
    /\ disk' = Written(articles)
    /\ torn' = FALSE
    /\ UNCHANGED <<extractor, media, render, pacing, foreign, cmd, cdp, provider, runs, lists>>
    /\ CASE ret = "check" ->
              \* batch_crawl.py:266-278: on to the CDP check
              /\ pc' = "check" /\ ret' = "none"
              /\ UNCHANGED <<articles, existing, urls, args_source, force, limit, to_process,
                             idx, attempt, slept, anti, fails, raw_html, stats, exit>>
         [] ret = "recrawl" ->
              \* batch_crawl.py:468 / ima_crawl.py:452: the crawl loads the file again
              /\ pc' = "check" /\ ret' = "none"
              /\ existing' = articles
              /\ UNCHANGED <<articles, urls, args_source, force, limit, to_process,
                             idx, attempt, slept, anti, fails, raw_html, stats, exit>>
         [] ret = "exit" ->
              \* ima_crawl.py:211-221: the list phase is over
              End("listed")
         [] ret = "loop" ->
              \* batch_crawl.py:337-338, 367-373: the next iteration, or the report
              IF idx < Len(to_process)
              THEN /\ idx' = idx + 1
                   /\ pc' = "download" /\ ret' = "none"
                   /\ attempt' = 0 /\ slept' = 0 /\ anti' = 0 /\ fails' = 0 /\ raw_html' = FALSE
                   /\ UNCHANGED <<articles, existing, urls, args_source, force, limit,
                                  to_process, stats, exit>>
              ELSE End("done")

\* the process is killed (signal, crash, power loss) between two steps
Interrupt ==
    /\ pc # "idle"
    /\ End(IF idx >= 2 THEN "interrupted_after_checkpoint" ELSE "interrupted")
    /\ UNCHANGED <<extractor, media, render, pacing, foreign, cmd, cdp, provider, disk, torn, runs, lists>>

\* ------------------------------------------------------------- batch: crawl
\* batch_crawl.py:256-267: crawl with a URL source
CrawlSource ==
    /\ provider = "batch" /\ pc = "idle" /\ runs < MaxRuns
    /\ runs' = runs + 1
    /\ cdp' = "unchecked" /\ cmd' = "crawl"
    /\ UNCHANGED <<extractor, media, render, pacing, foreign, provider, disk, torn, lists>>
    /\ \E source \in Sources, f \in BOOLEAN, l \in Limits :
          IF torn THEN End(LoadError)
          ELSE IF parse_urls(source) = <<>> THEN End("no_urls")
          ELSE /\ existing' = disk
               /\ urls' = parse_urls(source)
               /\ args_source' = source
               /\ articles' = build_manifest_from_urls(parse_urls(source), disk)
               /\ force' = f /\ limit' = l
               /\ exit' = "running"
               /\ pc' = "save" /\ ret' = "check"
               /\ UNCHANGED <<to_process, idx, attempt, slept, anti, fails, raw_html, stats>>

\* batch_crawl.py:256-274: crawl without a source resumes from the manifest
CrawlResume ==
    /\ provider = "batch" /\ pc = "idle" /\ runs < MaxRuns
    /\ runs' = runs + 1
    /\ cdp' = "unchecked" /\ cmd' = "crawl"
    /\ UNCHANGED <<extractor, media, render, pacing, foreign, provider, disk, torn, lists>>
    /\ \E f \in BOOLEAN, l \in Limits :
          IF torn THEN End(LoadError)
          ELSE IF disk = <<>> THEN End("no_manifest")
          ELSE /\ existing' = disk
               /\ articles' = disk
               /\ force' = f /\ limit' = l
               /\ exit' = "running"
               /\ pc' = "check"
               /\ UNCHANGED <<ret, urls, args_source, to_process, idx, attempt, slept, anti, fails,
                              raw_html, stats>>

\* ------------------------------------------------------------ retry commands
ResetAll(a) == [a EXCEPT !.status = "pending", !.errors = <<>>]

ResetKeepsErrors(a) ==
    IF a.status = "failed" THEN [a EXCEPT !.status = "pending"] ELSE a

ResetNothing(a) == a

\* batch_crawl.py:462-464, ima_crawl.py:447-449
ResetFailed(a) ==
    IF a.status = "failed"
    THEN [a EXCEPT !.status = "pending", !.errors = <<>>]
    ELSE a

HasUnfinished(manifest) == \E i \in DOMAIN manifest : manifest[i].status \notin Done

HasFailed(manifest) == \E i \in DOMAIN manifest : manifest[i].status = "failed"

\* batch_crawl.py:447-468
CmdRetry ==
    /\ provider = "batch" /\ pc = "idle" /\ runs < MaxRuns
    /\ runs' = runs + 1
    /\ cdp' = "unchecked" /\ cmd' = "retry"
    /\ UNCHANGED <<extractor, media, render, pacing, foreign, provider, disk, torn, lists>>
    /\ \E f \in BOOLEAN, l \in Limits :
          IF torn THEN End(LoadError)
          ELSE IF disk = <<>> THEN End("no_manifest")
          ELSE IF ~HasFailed(disk) THEN End("no_failed")
          ELSE /\ articles' = [i \in DOMAIN disk |-> ResetFailed(disk[i])]
               /\ force' = f /\ limit' = l
               /\ exit' = "running"
               /\ pc' = "save" /\ ret' = "recrawl"
               /\ UNCHANGED <<existing, urls, args_source, to_process, idx, attempt, slept, anti, fails,
                              raw_html, stats>>

\* ima_crawl.py:438-452; crawl_articles is called without force
RetryFailed ==
    /\ provider = "ima" /\ pc = "idle" /\ runs < MaxRuns
    /\ runs' = runs + 1
    /\ cdp' = "unchecked" /\ cmd' = "retry"
    /\ UNCHANGED <<extractor, media, render, pacing, foreign, provider, disk, torn, lists>>
    /\ \E l \in Limits :
          IF torn THEN End(LoadError)
          ELSE IF ~HasFailed(disk) THEN End("no_failed")
          ELSE /\ articles' = [i \in DOMAIN disk |-> ResetFailed(disk[i])]
               /\ force' = FALSE /\ limit' = l
               /\ exit' = "running"
               /\ pc' = "save" /\ ret' = "recrawl"
               /\ UNCHANGED <<existing, urls, args_source, to_process, idx, attempt, slept, anti, fails,
                              raw_html, stats>>

\* ----------------------------------------------------------------- ima: list
ImaItems == [url : URLS \cup {NoUrl}, ms : {READY, NOT_READY}]

\* ima_crawl.py:142-221: the list phase with auth headers; items is what the
\* API pages returned before the listing stopped
FetchArticleList ==
    /\ provider = "ima" /\ pc = "idle" /\ lists < MaxLists
    /\ lists' = lists + 1
    /\ cdp' = "unchecked" /\ cmd' = "list"
    /\ UNCHANGED <<extractor, media, render, pacing, foreign, provider, disk, torn, runs>>
    /\ \E items \in SeqsUpTo(ImaItems, MaxLen) :
          /\ articles' = [i \in 1..Len(items) |-> ImaRecord(i, items[i])]
          /\ existing' = disk
          /\ exit' = "running"
          /\ pc' = "save" /\ ret' = "exit"
          /\ UNCHANGED <<urls, args_source, force, limit, to_process, idx, attempt, slept, anti, fails,
                         raw_html, stats>>

\* ima_crawl.py:132-140: the list phase without auth headers
ListWithoutHeaders ==
    /\ provider = "ima" /\ pc = "idle" /\ lists < MaxLists
    /\ lists' = lists + 1
    /\ cdp' = "unchecked" /\ cmd' = "list"
    /\ UNCHANGED <<extractor, media, render, pacing, foreign, provider, disk, torn, runs>>
    /\ IF torn THEN End(LoadError)
       ELSE IF disk # <<>> THEN End("listed_existing")
       ELSE End("no_headers")

\* ima_crawl.py:280-285: the crawl phase
CrawlArticles ==
    /\ provider = "ima" /\ pc = "idle" /\ runs < MaxRuns
    /\ runs' = runs + 1
    /\ cdp' = "unchecked" /\ cmd' = "crawl"
    /\ UNCHANGED <<extractor, media, render, pacing, foreign, provider, disk, torn, lists>>
    /\ \E f \in BOOLEAN, l \in Limits :
          IF torn THEN End(LoadError)
          ELSE IF disk = <<>> THEN End("no_manifest")
          ELSE /\ existing' = disk
               /\ articles' = disk
               /\ force' = f /\ limit' = l
               /\ exit' = "running"
               /\ pc' = "check"
               /\ UNCHANGED <<ret, urls, args_source, to_process, idx, attempt, slept, anti, fails,
                              raw_html, stats>>

\* ------------------------------------------------------------ the driver loop
check_chrome_skipped(reachable) == TRUE

\* batch_crawl.py:176-192, ima_crawl.py:289-301: returns when the endpoint
\* answers, exits the process when it does not
check_chrome_ready(reachable) == reachable

\* batch_crawl.py:276-316, ima_crawl.py:289-332: the CDP check, the queue
CheckChrome ==
    /\ pc = "check"
    /\ UNCHANGED <<extractor, media, render, pacing, foreign, cmd, provider, disk, torn, runs, lists>>
    /\ \E reachable \in BOOLEAN :
          /\ cdp' = IF reachable THEN "up" ELSE "down"
          /\ IF ~check_chrome_ready(reachable) THEN End("fatal")
             ELSE IF BuildQueue(articles, force, limit) = <<>> THEN End("nothing")
             ELSE /\ to_process' = BuildQueue(articles, force, limit)
                  /\ idx' = 1
                  /\ pc' = "download"
                  /\ attempt' = 0 /\ slept' = 0 /\ anti' = 0 /\ fails' = 0
                  /\ raw_html' = FALSE
                  /\ stats' = [ok |-> 0, failed |-> 0]
                  /\ existing' = <<>> /\ urls' = <<>> /\ args_source' = NoSource
                  /\ UNCHANGED <<ret, articles, force, limit, exit>>

Outcomes == {"page", "transient", "antibot"}

LoopExhaustedEarly(a) == a >= MAX_RETRIES

\* for attempt in range(MAX_RETRIES + 1): batch_crawl.py:206, ima_crawl.py:240
LoopExhausted(a) == a > MAX_RETRIES

AfterAntiBotSame(a) == a

\* batch_crawl.py:222-225, ima_crawl.py:255-258: the anti-bot page sleeps and
\* continues the for loop, whose variable moves on
AfterAntiBot(a) == a + 1

\* batch_crawl.py:212-217, 227-231, 235-242: a failed attempt continues the loop
AfterTransient(a) == a + 1

RECURSIVE Pow(_, _)
Pow(b, e) == IF e = 0 THEN 1 ELSE b * Pow(b, e - 1)

\* if attempt < MAX_RETRIES: time.sleep(BACKOFF_BASE * (2 ** attempt))
\* (batch_crawl.py:215-216, 229-230, 237-238, 241-242; the same in ima_crawl.py)
Backoff(a) == IF a < MAX_RETRIES THEN BACKOFF_BASE * Pow(2, a) ELSE 0

\* one pass of download_raw_html_cdp's loop: the Fetcher answers with a page,
\* fails (exit code, timeout, exception, short body) or shows the anti-bot page
Attempt ==
    /\ pc = "download"
    /\ ~LoopExhausted(attempt)
    /\ UNCHANGED <<extractor, media, render, pacing, foreign, cmd, cdp, provider, ret, disk, torn, articles, existing, urls, args_source, force,
                   limit, to_process, idx, stats, exit, runs, lists>>
    /\ \E outcome \in Outcomes :
          CASE outcome = "page" ->
                  /\ raw_html' = TRUE /\ pc' = "extract"
                  /\ slept' = 0
                  /\ UNCHANGED <<attempt, anti, fails>>
            [] outcome = "transient" ->
                  /\ attempt' = AfterTransient(attempt)
                  /\ slept' = Backoff(attempt)
                  /\ fails' = fails + 1
                  /\ UNCHANGED <<pc, anti, raw_html>>
            [] outcome = "antibot" ->
                  /\ attempt' = AfterAntiBot(attempt)
                  /\ slept' = RATE_LIMIT_PAUSE
                  /\ anti' = anti + 1
                  /\ UNCHANGED <<pc, fails, raw_html>>

BumpOk(st, k) == [st EXCEPT !.ok = @ + 1]

Bump(st, k) == [st EXCEPT ![k] = @ + 1]

\* batch_crawl.py:332-338, ima_crawl.py:346-352: the download returned None
DownloadFailed ==
    /\ pc = "download"
    /\ LoopExhausted(attempt)
    /\ articles' = [articles EXCEPT ![cur].status = "failed",
                                    ![cur].errors = @ \o <<"download failed">>]
    /\ stats' = Bump(stats, "failed")
    /\ pc' = "save" /\ ret' = "loop"
    /\ UNCHANGED <<extractor, media, render, pacing, foreign, cmd, cdp, provider, disk, torn, existing, urls, args_source, force, limit,
                   to_process, idx, attempt, slept, anti, fails, raw_html, exit, runs, lists>>

Results == {"clean", "notes", "raise"}

AppliedAsFailed(a, r) ==
    [a EXCEPT !.status = "failed", !.errors = @ \o r.errors]

AppliedAppends(a, r) ==
    [a EXCEPT !.status = "extracted",
              !.title = IF provider = "batch" THEN r.title ELSE @,
              !.dir_name = r.dir_name,
              !.errors = @ \o r.errors]

\* batch_crawl.py:346-352, ima_crawl.py:359-364: the result of extract_article
\* goes into the record (the IMA driver keeps the title of the listing)
Applied(a, r) ==
    [a EXCEPT !.status = "extracted",
              !.title = IF provider = "batch" THEN r.title ELSE @,
              !.dir_name = r.dir_name,
              !.errors = IF r.errors # <<>> THEN r.errors ELSE @]

\* the results the driver tells apart: "notes" is a result whose error list is
\* not empty, "note" standing for the list
ResultOf(result) ==
    [done |-> TRUE, raised |-> FALSE, title |-> "T", dir_name |-> "D",
     errors |-> Note(result = "notes", "note")]

Extracted(a, result) == Applied(a, ResultOf(result))

ExtractionIgnored(a) == a

\* batch_crawl.py:360-364, ima_crawl.py:372-376
ExtractionRaised(a) ==
    [a EXCEPT !.status = "failed", !.errors = @ \o <<"exception">>]

\* batch_crawl.py:340-364, ima_crawl.py:354-376: extract_article returns a
\* result without errors, a result with non-fatal errors, or raises
Extract ==
    /\ pc = "extract"
    /\ UNCHANGED <<extractor, media, render, pacing, foreign, cmd, cdp, provider, disk, torn, existing, urls, args_source, force, limit,
                   to_process, idx, attempt, slept, anti, fails, raw_html, exit, runs, lists>>
    /\ pc' = "save" /\ ret' = "loop"
    /\ \E result \in Results :
          IF result = "raise"
          THEN /\ articles' = [articles EXCEPT ![cur] = ExtractionRaised(@)]
               /\ stats' = Bump(stats, "failed")
          ELSE /\ articles' = [articles EXCEPT ![cur] = Extracted(@, result)]
               /\ stats' = Bump(stats, "ok")

Driver ==
    \/ CheckChrome
    \/ Attempt
    \/ DownloadFailed
    \/ Extract
    \/ SaveBegin
    \/ SaveEnd
    \/ Interrupt

NextBatch ==
    \/ CrawlSource
    \/ CrawlResume
    \/ CmdRetry
    \/ Driver

NextIma ==
    \/ FetchArticleList
    \/ ListWithoutHeaders
    \/ CrawlArticles
    \/ RetryFailed
    \/ Driver

Next == NextBatch \/ NextIma

Spec == Init /\ [][Next]_vars

InitBatch == Init /\ provider = "batch"

InitIma == Init /\ provider = "ima"

SpecBatch == InitBatch /\ [][NextBatch]_vars

\* the one thread of the command goes on as long as it has a step to take
\* (every sleep is finite, the Fetcher is run with timeout=60)
SpecFair == Spec /\ WF_vars(Next)

\* ------------------------------------------- another process and manifest.json
\* what a second command can make of the file while a crawl is in its loop: the
\* reset of cmd_retry (batch_crawl.py:458-466), or a record extracted by a
\* second crawl (batch_crawl.py:345, 367)
ForeignWrites(manifest) ==
    {[i \in DOMAIN manifest |-> ResetFailed(manifest[i])]}
    \cup {[manifest EXCEPT ![i].status = "extracted"] : i \in DOMAIN manifest}

\* the other process saves its manifest between two steps of the crawl
OtherWriter ==
    /\ pc \in {"download", "extract", "save"} /\ ~torn
    /\ foreign = <<>>
    /\ \E w \in ForeignWrites(disk) :
          /\ w # disk
          /\ disk' = w /\ foreign' = w
    /\ UNCHANGED <<extractor, media, render, pacing, cmd, provider, pc, ret, torn, articles,
                   existing, urls, args_source, force, limit, to_process, idx, attempt,
                   anti, fails, raw_html, stats, exit, runs, lists, slept, cdp>>

NextShared == NextBatch \/ OtherWriter

SpecShared == InitBatch /\ [][NextShared]_vars

SpecIma == InitIma /\ [][NextIma]_vars

\* ------------------------------------------- one extract_article call, alone
\* the driver's call of batch_crawl.py:340-364 on a pending record, followed
\* through extract_article for every page and every combination of faults
ExtractArticle ==
    /\ ~ext_result.done
    /\ \E f \in Faults :
          /\ faults' = f
          /\ ext_result' = extract_article(page, f)
          /\ content' = IF f.content THEN <<>> ELSE extract_content_soup(page)
          /\ record' = IF extract_article(page, f).raised
                        THEN ExtractionRaised(record)
                        ELSE Applied(record, extract_article(page, f))
    /\ UNCHANGED <<page, driver, media, render, pacing>>

NextExtract == ExtractArticle

InitExtract ==
    /\ InitDriver /\ provider = "batch" /\ MediaIdle /\ RenderIdle /\ PacingIdle
    /\ page \in Pages
    /\ faults = [content |-> FALSE, mkdir |-> FALSE, raw |-> FALSE, img |-> FALSE,
                 html |-> FALSE, md |-> FALSE]
    /\ content = <<>>
    /\ ext_result = NoResult
    /\ record = NewRecord(1, 1)

SpecExtract == InitExtract /\ [][NextExtract]_vars

\* ============================================================ download_images
\* wechat_extract.py:213-270, called on one content tree and one assets_dir

\* the requests of one image: range(IMG_RETRY + 1) (wechat_extract.py:43)
IMG_RETRY == 2

MaxImgs == 2
NumImgUrls == 3
HashSpace == 2
MaxMediaRuns == 2

ImgUrls == 1..NumImgUrls

\* hashlib.md5(src.encode()).hexdigest()[:8]: a function of the URL alone, and
\* two URLs can share a value
url_hash(u) == (u % HashSpace) + 1

NoFile == [n |-> 0, hash |-> 0]

\* f"img_{img_counter:03d}_{url_hash}{ext}"
ImgFilename(counter, u) == [n |-> counter, hash |-> url_hash(u)]

\* the src attribute of an <img>: a remote URL, f"assets/{filename}", or
\* anything else (no src, a data: URI)
Http(u) == [kind |-> "http", url |-> u, file |-> NoFile]

Local(f) == [kind |-> "local", url |-> NoUrl, file |-> f]

Inline == [kind |-> "other", url |-> NoUrl, file |-> NoFile]

RawSrcs == {Http(u) : u \in ImgUrls} \cup {Inline}

IsRemoteAlways(src) == TRUE

\* src and src.startswith("http")
IsRemote(src) == src.kind = "http"

ImgExhaustedEarly(a) == a >= IMG_RETRY

\* for attempt in range(IMG_RETRY + 1) is over after a requests
ImgExhausted(a) == a > IMG_RETRY

\* what sess.get, raise_for_status and the length test make of a request
Responses == {"image", "too_small", "error"}

\* if len(data) < 100: raise ValueError
MinImgBytes == 100

\* len(data) of a response that passes the length test
ImgSizes == {MinImgBytes, MinImgBytes + 1}

DownloadedUncounted(st, n) == [st EXCEPT !.ok = @ + 1]

\* stats["ok"] += 1; stats["bytes"] += len(data)
Downloaded(st, n) == [st EXCEPT !.ok = @ + 1, !.bytes = @ + n]

\* the <img> at hand and the file it was named after
CurSrc == soup_imgs[img_pos]

CurFile == img_names[img_pos]

OtherGroups == <<driver, extractor, render, pacing>>

\* a call of download_images: on the tree the call before left, or on the tree
\* parsed again from the same markup (extract_article, wechat_extract.py:537-560)
MediaStart(fresh) ==
    /\ mpc = "idle" /\ img_run < MaxMediaRuns
    /\ soup_imgs' = IF fresh THEN raw_imgs ELSE soup_imgs
    /\ first_run' = IF img_run = 1
                    THEN [imgs |-> soup_imgs, names |-> img_names, stats |-> img_stats]
                    ELSE first_run
    /\ img_run' = img_run + 1
    /\ img_stats' = NoStats /\ img_counter' = 0
    /\ img_names' = [i \in DOMAIN raw_imgs |-> NoFile]
    /\ img_data' = [i \in DOMAIN raw_imgs |-> 0]
    /\ img_reqs' = 0 /\ img_attempt' = 0 /\ img_resp' = "none"
    /\ img_pos' = 1 /\ mpc' = "next"
    /\ UNCHANGED <<OtherGroups, raw_imgs, assets>>

\* the for loop is over: return stats
ImgLoopEnd ==
    /\ mpc = "next" /\ img_pos > Len(soup_imgs)
    /\ mpc' = "idle"
    /\ UNCHANGED <<OtherGroups, raw_imgs, soup_imgs, assets, img_pos, img_counter,
                   img_attempt, img_resp, img_stats, img_reqs, img_run, img_names,
                   img_data, first_run>>

\* continue (wechat_extract.py:224-225)
ImgNotRemote ==
    /\ mpc = "next" /\ img_pos <= Len(soup_imgs)
    /\ ~IsRemote(CurSrc)
    /\ img_pos' = img_pos + 1
    /\ UNCHANGED <<OtherGroups, raw_imgs, soup_imgs, assets, mpc, img_counter,
                   img_attempt, img_resp, img_stats, img_reqs, img_run, img_names,
                   img_data, first_run>>

\* wechat_extract.py:227-244: count and name the image; a file of that name
\* that is not empty is taken for the image
ImgBegin ==
    /\ mpc = "next" /\ img_pos <= Len(soup_imgs)
    /\ IsRemote(CurSrc)
    /\ LET filename == ImgFilename(img_counter + 1, CurSrc.url)
       IN  /\ img_counter' = img_counter + 1
           /\ img_names' = [img_names EXCEPT ![img_pos] = filename]
           /\ IF filename \in assets
              THEN /\ soup_imgs' = [soup_imgs EXCEPT ![img_pos] = Local(filename)]
                   /\ img_stats' = [img_stats EXCEPT !.total = @ + 1, !.skipped = @ + 1,
                                                     !.ok = @ + 1]
                   /\ img_pos' = img_pos + 1
                   /\ UNCHANGED mpc
              ELSE /\ img_stats' = [img_stats EXCEPT !.total = @ + 1]
                   /\ mpc' = "request"
                   /\ UNCHANGED <<soup_imgs, img_pos>>
    /\ img_attempt' = 0 /\ img_resp' = "none"
    /\ UNCHANGED <<OtherGroups, raw_imgs, assets, img_reqs, img_run, img_data, first_run>>

\* one pass of the retry loop (wechat_extract.py:245-262)
ImgRequest(resp) ==
    /\ mpc = "request" /\ ~ImgExhausted(img_attempt)
    /\ img_reqs' = img_reqs + 1
    /\ img_resp' = resp
    /\ IF resp = "image"
       THEN /\ assets' = assets \cup {CurFile}
            /\ soup_imgs' = [soup_imgs EXCEPT ![img_pos] = Local(CurFile)]
            /\ \E n \in ImgSizes :
                  /\ img_data' = [img_data EXCEPT ![img_pos] = n]
                  /\ img_stats' = Downloaded(img_stats, n)
            /\ img_pos' = img_pos + 1 /\ mpc' = "next"
            /\ UNCHANGED img_attempt
       ELSE /\ img_attempt' = img_attempt + 1
            /\ UNCHANGED <<assets, soup_imgs, img_stats, img_data, img_pos, mpc>>
    /\ UNCHANGED <<OtherGroups, raw_imgs, img_counter, img_run, img_names, first_run>>

\* if not ok (wechat_extract.py:264-267)
ImgGiveUp ==
    /\ mpc = "request" /\ ImgExhausted(img_attempt)
    /\ img_stats' = [img_stats EXCEPT !.failed = @ + 1]
    /\ soup_imgs' = [soup_imgs EXCEPT ![img_pos] = CurSrc]
    /\ img_pos' = img_pos + 1 /\ mpc' = "next"
    /\ UNCHANGED <<OtherGroups, raw_imgs, assets, img_counter, img_attempt, img_resp,
                   img_reqs, img_run, img_names, img_data, first_run>>

NextMedia ==
    \/ \E fresh \in BOOLEAN : MediaStart(fresh)
    \/ ImgLoopEnd
    \/ ImgNotRemote
    \/ ImgBegin
    \/ \E resp \in Responses : ImgRequest(resp)
    \/ ImgGiveUp

InitMedia ==
    /\ InitDriver /\ provider = "batch" /\ ExtractorIdle /\ RenderIdle /\ PacingIdle
    /\ raw_imgs \in SeqsUpTo(RawSrcs, MaxImgs)
    /\ soup_imgs = raw_imgs /\ assets = {} /\ mpc = "idle"
    /\ img_pos = 0 /\ img_counter = 0 /\ img_attempt = 0 /\ img_resp = "none"
    /\ img_stats = NoStats /\ img_reqs = 0 /\ img_run = 0
    /\ img_names = <<>> /\ img_data = <<>> /\ first_run = NoFirstRun

SpecMedia == InitMedia /\ [][NextMedia]_vars

\* ============================================================ html_to_markdown
\* wechat_extract.py:335-479. A string is a sequence of characters; a fence,
\* "---" and a language name are one element each.

MaxNodes == 3
MaxText == 2
MaxCode == 1
MaxRows == 2
MaxCols == 2
MaxItems == 2

\* the three backquotes of a fence line
Fence == "~~~"

Chars == {"a", " ", "\n"}

Whitespace == {" ", "\n"}

\* the elements of s at the positions in K, in order
KeepAt(s, K) ==
    LET F[i \in 0..Len(s)] ==
            IF i = 0 THEN <<>>
            ELSE IF i \in K THEN Append(F[i - 1], s[i]) ELSE F[i - 1]
    IN  F[Len(s)]

RECURSIVE Join(_, _)
\* sep.join(strs)
Join(strs, sep) ==
    IF strs = <<>> THEN <<>>
    ELSE IF Len(strs) = 1 THEN strs[1]
    ELSE strs[1] \o sep \o Join(Tail(strs), sep)

\* re.sub(r'[ \t]+', ' ', text)
CollapseBlanks(t) ==
    KeepAt(t, {i \in DOMAIN t : ~(t[i] = " " /\ i > 1 /\ t[i - 1] = " ")})

\* str.strip()
Strip(t) ==
    KeepAt(t, {i \in DOMAIN t :
                  /\ \E j \in 1..i : t[j] \notin Whitespace
                  /\ \E k \in i..Len(t) : t[k] \notin Whitespace})

\* str.replace('|', '\\|')
EscapePipes(t) ==
    Join([i \in DOMAIN t |-> IF t[i] = "|" THEN <<"\\", "|">> ELSE <<t[i]>>], <<>>)

\* re.sub(r'\n{3,}', '\n\n', md)
CollapseNewlines(md) ==
    KeepAt(md, {i \in DOMAIN md :
                   ~(md[i] = "\n" /\ i > 2 /\ md[i - 1] = "\n" /\ md[i - 2] = "\n")})

\* re.sub(r'[ \t]+\n', '\n', md)
StripLineEnds(md) ==
    KeepAt(md, {i \in DOMAIN md :
                   ~(/\ md[i] = " "
                     /\ \E j \in (i + 1)..Len(md) :
                           /\ md[j] = "\n"
                           /\ \A k \in i..(j - 1) : md[k] = " ")})

\* ------------------------------------------------------------ the content tree
TextNode(t) == [tag |-> "#text", text |-> t, classes |-> <<>>, rows |-> <<>>]

\* <p> around one string
PNode(t) == [tag |-> "p", text |-> t, classes |-> <<>>, rows |-> <<>>]

\* <pre><code class=...> around one string
PreNode(t, cls) == [tag |-> "pre", text |-> t, classes |-> cls, rows |-> <<>>]

\* <table> of <tr> of <td> around one string each
TableNode(rows) == [tag |-> "table", text |-> <<>>, classes |-> <<>>, rows |-> rows]

\* <ul> or <ol> of <li> around one string each (the items are in rows)
ListNode(tag, items) == [tag |-> tag, text |-> <<>>, classes |-> <<>>, rows |-> items]

\* a class of the inner <code>: "hljs", "language-py", "language-js"
Hljs == [language |-> FALSE, word |-> "hljs"]

LanguageClass(w) == [language |-> TRUE, word |-> w]

ClassLists ==
    {<<>>, <<Hljs, LanguageClass("py")>>, <<LanguageClass("js"), LanguageClass("py")>>}

CellTexts == {<<>>, <<"a">>, <<"|">>, <<" ", "a">>, <<"a", "\n", "a">>}

Tables ==
    {TableNode(rows) : rows \in SeqsUpTo(SeqsUpTo(CellTexts, MaxCols), MaxRows)}

ItemTexts == {<<>>, <<" ">>, <<"a">>}

Lists ==
    {ListNode(tag, items) : tag \in {"ul", "ol"}, items \in SeqsUpTo(ItemTexts, MaxItems)}

FlowNodes ==
    {TextNode(t) : t \in SeqsUpTo(Chars, MaxText) \ {<<>>}}
    \cup {PNode(t) : t \in {<<>>, <<"a">>, <<"a", " ">>}}
    \cup {PreNode(t, cls) : t \in SeqsUpTo(Chars, MaxCode), cls \in ClassLists}

\* the parser joins adjacent strings into one text node
Trees ==
    {t \in SeqsUpTo(FlowNodes, MaxNodes) :
        \A i \in 1..(Len(t) - 1) : ~(t[i].tag = "#text" /\ t[i + 1].tag = "#text")}
    \cup {<<t>> : t \in Tables}
    \cup {<<l>> : l \in Lists}

\* ---------------------------------------------------------- _soup_to_markdown
\* wechat_extract.py:405-410: the first class that matches language-(\w+)
Lang(classes) ==
    IF \E i \in DOMAIN classes : classes[i].language
    THEN <<classes[CHOOSE i \in DOMAIN classes :
                      /\ classes[i].language
                      /\ \A j \in 1..(i - 1) : ~classes[j].language].word>>
    ELSE <<>>

\* wechat_extract.py:435: c.get_text(strip=True).replace('|', '\\|')
Cell(c) == EscapePipes(Strip(c))

\* wechat_extract.py:438-441: col_count and the padding
ColCount(rows) ==
    CHOOSE n \in 0..MaxCols :
        /\ \A i \in DOMAIN rows : Len(rows[i]) <= n
        /\ \E i \in DOMAIN rows : Len(rows[i]) = n

Padded(row, n) == [k \in 1..n |-> IF k <= Len(row) THEN Cell(row[k]) ELSE <<>>]

\* "| " + " | ".join(r) + " |"
TableLine(cells) == <<"|", " ">> \o Join(cells, <<" ", "|", " ">>) \o <<" ", "|">>

\* wechat_extract.py:429-447
TablePart(rows) ==
    IF rows = <<>> THEN <<>>
    ELSE LET n == ColCount(rows)
             table_data == [i \in DOMAIN rows |-> Padded(rows[i], n)]
             header == TableLine(table_data[1])
             sep == TableLine([k \in 1..n |-> <<"---">>])
             body == Join([i \in 1..(Len(rows) - 1) |-> TableLine(table_data[i + 1])],
                          <<"\n">>)
         IN  <<"\n", "\n">> \o header \o <<"\n">> \o sep \o <<"\n">> \o body
                 \o <<"\n", "\n">>

\* wechat_extract.py:421-425: the line of the li at 0-based position idx0
ListItem(tag, idx0, li) ==
    LET text == Strip(CollapseBlanks(li))
        prefix == IF tag = "ol" THEN <<ToString(idx0 + 1), ".", " ">> ELSE <<"-", " ">>
    IN  IF text = <<>> THEN <<>> ELSE prefix \o text

\* wechat_extract.py:418-427
ListPart(tag, items) ==
    LET lines == [i \in DOMAIN items |-> ListItem(tag, i - 1, items[i])]
        kept(l) == l # <<>>
        list_parts == SelectSeq(lines, kept)
    IN  IF list_parts = <<>> THEN <<>>
        ELSE <<"\n", "\n">> \o Join(list_parts, <<"\n">>) \o <<"\n", "\n">>

\* what one child of the tree appends to parts
Part(node) ==
    CASE node.tag = "#text" -> CollapseBlanks(node.text)
      [] node.tag = "p" ->
            LET text == Strip(CollapseBlanks(node.text))
            IN  IF text = <<>> THEN <<>>
                ELSE <<"\n", "\n">> \o text \o <<"\n", "\n">>
      [] node.tag = "pre" ->
            <<"\n", "\n", Fence>> \o Lang(node.classes) \o <<"\n">> \o node.text
                \o <<"\n", Fence, "\n", "\n">>
      [] node.tag = "table" -> TablePart(node.rows)
      [] node.tag \in {"ul", "ol"} -> ListPart(node.tag, node.rows)

\* ''.join(parts)
_soup_to_markdown(soup) == Join([i \in DOMAIN soup |-> Part(soup[i])], <<>>)

\* wechat_extract.py:459-464: the Markdown after the header
MdBody(soup) == Strip(StripLineEnds(CollapseNewlines(_soup_to_markdown(soup))))

\* wechat_extract.py:466-477 with an empty title and no metadata
MdHeader == <<"#", " ", "\n", "\n", "\n", "---", "\n", "\n">>

html_to_markdown(soup) == MdHeader \o MdBody(soup)

\* one call of html_to_markdown
Render ==
    /\ ~rendered
    /\ rendered' = TRUE
    /\ md_body' = MdBody(content_soup)
    /\ UNCHANGED <<driver, extractor, media, pacing, content_soup>>

NextRender == Render

InitRender ==
    /\ InitDriver /\ provider = "batch" /\ ExtractorIdle /\ MediaIdle /\ PacingIdle
    /\ content_soup \in Trees
    /\ md_body = <<>>
    /\ rendered = FALSE

SpecRender == InitRender /\ [][NextRender]_vars

\* ======================================================= the sleeps of the loop
\* batch_crawl.py:318-373, ima_crawl.py:334-382: what the loop over to_process
\* sleeps between two calls of download_raw_html_cdp

\* batch_crawl.py:63, ima_crawl.py:65
PAUSE_EVERY == 200

\* ima_crawl.py:63-64; DEFAULT_DELAY = "2-5" (batch_crawl.py:60), in seconds
DELAY_MIN == 2

DELAY_MAX == 5

MaxQueue == 201

LongPauseDueAtZero(i) == i % PAUSE_EVERY = 0

\* if idx > 0 and idx % PAUSE_EVERY == 0
LongPauseDue(i) == i > 0 /\ i % PAUSE_EVERY = 0

\* how the body of the loop ends for one record
RecordOutcomes == {"extracted", "failed", "download_failed"}

\* the delay at the end of the body: not reached after the continue of a failed
\* download; batch skips it after the last record, ima does not
DelayReached(o, i) ==
    /\ o # "download_failed"
    /\ provider = "batch" => i < total - 1

\* the top of the body up to the call of download_raw_html_cdp
PaceTop ==
    /\ ppc = "top"
    /\ paused' = IF LongPauseDue(qidx) THEN paused + 1 ELSE paused
    /\ ppc' = "fetch"
    /\ UNCHANGED <<driver, extractor, media, render, total, qidx, last_outcome, delayed>>

\* the fetch, the extraction, the checkpoint and the delay of one record
PaceRecord(o) ==
    /\ ppc = "fetch"
    /\ last_outcome' = o
    /\ IF DelayReached(o, qidx)
       THEN delayed' \in DELAY_MIN..DELAY_MAX
       ELSE delayed' = 0
    /\ qidx' = qidx + 1
    /\ ppc' = IF qidx + 1 < total THEN "top" ELSE "done"
    /\ UNCHANGED <<driver, extractor, media, render, total, paused>>

NextPacing ==
    \/ PaceTop
    \/ \E o \in RecordOutcomes : PaceRecord(o)

InitPacing ==
    /\ InitDriver /\ ExtractorIdle /\ MediaIdle /\ RenderIdle
    /\ total \in 1..MaxQueue
    /\ qidx = 0 /\ ppc = "top" /\ paused = 0
    /\ last_outcome = "none" /\ delayed = 0

SpecPacing == InitPacing /\ [][NextPacing]_vars

\* =================================================================== claims
\* a merge has just been computed by crawl-with-a-source: urls is the parsed
\* list, existing the manifest it was merged into, articles the result
Merged == provider = "batch" /\ urls # <<>>

UrlsOf(manifest) == [i \in DOMAIN manifest |-> manifest[i].url]

\* C1: build_manifest_from_urls(urls, existing) returns one record per URL of
\* the (duplicate-free) list, in list order, the i-th with seq = i; a record
\* whose URL was in the existing manifest keeps every field but seq; a record
\* of a new URL is pending with empty title, dir_name and error list.
C1_MergeContract ==
    Merged =>
        /\ Len(articles) = Len(urls)
        /\ \A i \in 1..Len(urls) :
              /\ articles[i].url = urls[i]
              /\ articles[i].seq = i
              /\ IF \E j \in DOMAIN existing : existing[j].url = urls[i]
                 THEN \E j \in DOMAIN existing :
                         /\ existing[j].url = urls[i]
                         /\ articles[i] = [existing[j] EXCEPT !.seq = i]
                 ELSE /\ articles[i].status = "pending"
                      /\ articles[i].title = ""
                      /\ articles[i].dir_name = ""
                      /\ articles[i].errors = <<>>

\* a merge of two URLs: the second was extracted and stood first, the first is new
C1_Witness ==
    /\ Merged
    /\ Len(urls) = 2 /\ Len(existing) >= 1
    /\ existing[1].url = urls[2]
    /\ existing[1].status = "extracted"
    /\ \A j \in DOMAIN existing : existing[j].url # urls[1]

\* the existing records of one URL agree with the merged ones on status and errors
Preserved(old, new) ==
    \A i \in DOMAIN old, j \in DOMAIN new :
        (old[i].url = new[j].url /\ old[i].url # NoUrl) =>
            /\ new[j].status = old[i].status
            /\ new[j].errors = old[i].errors

\* C2: every rebuild of the manifest from a freshly discovered URL set (batch
\* crawl with a source; the IMA list phase with auth headers) leaves the status
\* and the error list of every record whose URL was already in the manifest
\* unchanged.
C2_RediscoveryKeepsStatus ==
    /\ Merged => Preserved(existing, articles)
    /\ (provider = "ima" /\ ret = "exit") => Preserved(existing, articles)

Permuted(us, f) == [i \in 1..Len(us) |-> us[f[i]]]

\* the same records up to their order and their seq
SameUpToOrderAndSeq(m1, m2) ==
    /\ Len(m1) = Len(m2)
    /\ \A i \in DOMAIN m1 : \E j \in DOMAIN m2 : m1[i] = [m2[j] EXCEPT !.seq = m1[i].seq]
    /\ \A j \in DOMAIN m2 : \E i \in DOMAIN m1 : m2[j] = [m1[i] EXCEPT !.seq = m2[j].seq]

\* C3: merging U into M and then U again into the result yields the result of
\* the first merge; merging a permutation of U (into M, or into the result)
\* changes only the order of the records and their seq.
C3_MergeIdempotent ==
    Merged =>
        /\ build_manifest_from_urls(urls, articles) = articles
        /\ \A f \in Permutations(1..Len(urls)) :
              /\ SameUpToOrderAndSeq(
                     build_manifest_from_urls(Permuted(urls, f), existing), articles)
              /\ SameUpToOrderAndSeq(
                     build_manifest_from_urls(Permuted(urls, f), articles), articles)
              /\ UrlsOf(build_manifest_from_urls(Permuted(urls, f), existing))
                     = Permuted(urls, f)

\* the second merge of the same two URLs, one of them extracted in between
C3_Witness ==
    /\ Merged
    /\ Len(urls) = 2
    /\ UrlsOf(existing) = urls
    /\ \E i \in DOMAIN existing : existing[i].status = "extracted"
    /\ \E i \in DOMAIN existing : existing[i].status = "pending"

\* the driver loop is at a queue record
InLoop == pc \in {"download", "extract", "save", "saving"} /\ idx >= 1

\* the fetch of queue record idx is about to begin
AtFetch == pc = "download" /\ attempt = 0

\* C4: after every processed queue record, extracted or failed, and before the
\* fetch of the next record begins, the manifest on disk equals the in-memory
\* manifest; hence at any interruption point the manifest on disk differs from
\* the in-memory one in at most the record being processed.
C4_CheckpointEveryRecord ==
    /\ AtFetch => (~torn /\ disk = articles)
    /\ InLoop =>
          /\ ~torn
          /\ Len(disk) = Len(articles)
          /\ \A i \in DOMAIN articles : i # cur => disk[i] = articles[i]

\* the first half of C4 alone: the checkpoint is complete before the next fetch
CheckpointBeforeFetch == AtFetch => (~torn /\ disk = articles)

\* what a provider's crawl can fetch at all: a URL, and in IMA a ready article
Crawlable(a) == a.url # NoUrl /\ (provider = "ima" => a.media_state = READY)

\* C5: a crawl restarted without force after an interruption reads the last
\* checkpoint, fetches only records whose persisted status is not
\* downloaded/extracted, and queues every crawlable record that is not yet in
\* such a state (up to the limit).
C5_ResumeSafety ==
    /\ exit # "resume_load_error"
    /\ (pc \in {"download", "extract"} /\ ~force) =>
          (~torn /\ disk[cur].status \notin Done)
    /\ (AtFetch /\ idx = 1 /\ ~force) =>
          /\ \A k \in DOMAIN to_process : articles[to_process[k]].status \notin Done
          /\ \A i \in DOMAIN articles :
                (Crawlable(articles[i]) /\ articles[i].status \notin Done) =>
                    \/ i \in Range(to_process)
                    \/ (limit > 0 /\ Len(to_process) = limit)

\* C6: at every point at which the process can be interrupted, also during
\* save_manifest, manifest.json holds a complete serialization of a manifest;
\* it is never empty, truncated or partly written.
C6_AtomicPersistence == ~torn

\* q is the first l (all, when l = 0) indices, in manifest order, of the records
\* of the manifest that satisfy want
IsQueueOf(q, manifest, l, want(_)) ==
    /\ \A k \in DOMAIN q : q[k] \in DOMAIN manifest /\ want(manifest[q[k]])
    /\ \A k \in DOMAIN q : k > 1 => q[k - 1] < q[k]
    /\ \A i \in DOMAIN manifest :
          want(manifest[i]) =>
              \/ i \in Range(q)
              \/ l > 0 /\ Len(q) = l /\ i > q[Len(q)]
    /\ l > 0 => Len(q) <= l

\* the queue has just been built from articles, which no step has touched since
QueueBuilt == AtFetch /\ idx = 1 /\ anti = 0 /\ fails = 0

\* C7 as stated: the work queue is exactly the manifest records, in manifest
\* order, that have a URL and whose status is not downloaded/extracted (all
\* records with a URL under force), truncated to the first limit entries.
C7_QueueAsStated ==
    QueueBuilt =>
        LET want(a) == a.url # NoUrl /\ (force \/ a.status \notin Done)
        IN  IsQueueOf(to_process, articles, limit, want)

\* C7, amended: the work queue is exactly the manifest records, in manifest
\* order, that have a URL, in the IMA crawl also media_state = 2, and whose
\* status is not downloaded/extracted (whatever the status under force),
\* truncated to the first limit entries when limit > 0; while the queue is
\* processed only queue records are fetched, a record outside the queue is not
\* modified, and without force a downloaded/extracted record never changes.
C7_QueueAndFrame ==
    [][/\ QueueBuilt' =>
              LET want(a) == Crawlable(a) /\ (force' \/ a.status \notin Done)
              IN  IsQueueOf(to_process', articles', limit', want)
       /\ InLoop' => cur' \in DOMAIN articles'
       /\ (InLoop /\ InLoop') =>
              /\ to_process' = to_process
              /\ \A i \in DOMAIN articles :
                    (i \notin Range(to_process) \/ (~force /\ articles[i].status \in Done))
                        => articles'[i] = articles[i]
      ]_vars

\* a run limited to one record, over a manifest whose first record is extracted
\* and whose other records are not, has processed the second record
C7_Witness ==
    /\ pc = "save" /\ InLoop
    /\ ~force /\ limit = 1
    /\ Len(articles) >= 2
    /\ articles[1].status = "extracted"
    /\ to_process = <<2>>
    /\ articles[2].status = "failed"

\* the manifest a command works on: the file before it has loaded it
View == IF pc = "idle" THEN disk ELSE articles

\* the same record before and after a step: by URL across a merge, else by position
SameRecord(i, j) ==
    IF urls' # <<>> /\ pc = "idle"
    THEN View[i].url = View'[j].url
    ELSE i = j

\* the step belongs to a crawl or retry command run without force
PlainStep ==
    /\ pc' # "idle"
    /\ ~force /\ ~force'
    /\ ret' # "exit"

\* the step is the retry command's reset of the failed records
RetryReset == pc = "idle" /\ ret' = "recrawl"

StatusStep(allowed(_, _)) ==
    /\ \A i \in DOMAIN View' : View'[i].status \in Statuses
    /\ PlainStep =>
          \A i \in DOMAIN View, j \in DOMAIN View' :
              (SameRecord(i, j) /\ View[i].status # View'[j].status) =>
                  \/ allowed(View[i].status, View'[j].status)
                  \/ RetryReset /\ View[i].status = "failed"
                                /\ View'[j].status = "pending"

StatedMove(a, b) == a = "pending" /\ b \in {"extracted", "failed"}

\* C8 as stated: across crawl and retry commands run without force, every
\* status change is pending->extracted, pending->failed, or failed->pending by
\* the retry command; status is always one of the four values.
C8_StatusMovesAsStated == [][StatusStep(StatedMove)]_vars

AmendedMove(a, b) ==
    \/ a = "pending" /\ b \in {"extracted", "failed"}
    \/ a = "failed" /\ b = "extracted"

\* C8, amended: across crawl and retry commands run without force, every status
\* change is pending->extracted, pending->failed, failed->extracted (a crawl
\* run queues failed records again), or failed->pending by the retry command;
\* a record leaves status failed only through the retry command or by being
\* extracted in a later crawl run; status is always one of the four values.
C8_StatusMoves == [][StatusStep(AmendedMove)]_vars

\* a crawl run without force has just extracted a record that was failed on disk
C8_Witness ==
    /\ pc = "save" /\ InLoop /\ ~force
    /\ disk[cur].status = "failed"
    /\ articles[cur].status = "extracted"

\* C9: an anti-bot page makes the driver pause and try again without consuming
\* a retry: anti-bot pages never reduce the retries left for failed attempts,
\* and the download gives up only after MAX_RETRIES + 1 failed attempts.
C9_AntiBotKeepsRetries ==
    pc = "download" =>
        /\ MAX_RETRIES + 1 - attempt = MAX_RETRIES + 1 - fails
        /\ LoopExhausted(attempt) => fails = MAX_RETRIES + 1

\* C10: with a retry cap of 3, a pending record with an empty error list whose
\* fetch fails 3 times in a row and then succeeds ends extracted (the extractor
\* not raising); after 4 failures in a row it ends failed with exactly one
\* retry-exhaustion note, the manifest is saved and the run goes on with the
\* next queued record.
C10_RetryCap ==
    [][/\ (pc' = "save" /\ InLoop' /\ raw_html') =>
              /\ fails' + anti' <= MAX_RETRIES
              /\ \/ articles'[cur'].status = "extracted"
                 \/ /\ articles'[cur'].status = "failed"
                    /\ articles'[cur'].errors = disk'[cur'].errors \o <<"exception">>
       /\ (pc' = "save" /\ InLoop' /\ ~raw_html') =>
              /\ fails' + anti' = MAX_RETRIES + 1
              /\ articles'[cur'].status = "failed"
              /\ articles'[cur'].errors = disk'[cur'].errors \o <<"download failed">>
              /\ ret' = "loop"
       /\ (pc = "saving" /\ ret = "loop" /\ exit' = "running") =>
              /\ disk' = articles /\ ~torn'
              /\ idx < Len(to_process)
              /\ idx' = idx + 1 /\ pc' = "download"
       /\ (pc = "saving" /\ ret = "loop" /\ idx < Len(to_process)) =>
              exit' \in {"running", "interrupted", "interrupted_after_checkpoint"}
      ]_vars

\* the first queue record failed after 4 failed fetches and is checkpointed;
\* the second, pending with no errors, was extracted after 3 failed fetches
C10_Witness ==
    /\ pc = "save" /\ InLoop /\ idx = 2
    /\ disk[to_process[1]].status = "failed"
    /\ disk[to_process[1]].errors = <<"download failed">>
    /\ disk[cur].status = "pending" /\ disk[cur].errors = <<>>
    /\ raw_html /\ fails = MAX_RETRIES /\ anti = 0
    /\ articles[cur].status = "extracted"

\* C11: the wait after the k-th consecutive failed attempt of one download
\* (k = 1..MAX_RETRIES) is BACKOFF_BASE * 3^(k-1) seconds: 5, 15, 45.
C11_BackoffTimes3 ==
    [][(pc = "download" /\ anti' = 0 /\ fails' = fails + 1 /\ fails' <= MAX_RETRIES)
           => slept' = BACKOFF_BASE * Pow(3, fails' - 1)
      ]_vars

\* the extraction step of the driver loop, and what extract_article did in it
ExtractStep == pc = "extract" /\ pc' = "save"
RaisedNow == ExtractStep /\ stats'.failed = stats.failed + 1
ReturnedNow == ExtractStep /\ stats'.ok = stats.ok + 1

\* the run goes on after the record at hand: its checkpoint is written and the
\* next queued record, if any, is fetched; only an interruption ends it early
RunGoesOn ==
    /\ ExtractStep => ret' = "loop"
    /\ (pc = "saving" /\ ret = "loop" /\ pc' # "idle") =>
          /\ disk' = articles /\ ~torn'
          /\ idx' = idx + 1 /\ pc' = "download"
    /\ (pc = "saving" /\ ret = "loop" /\ idx < Len(to_process)) =>
          exit' \in {"running", "interrupted", "interrupted_after_checkpoint"}

RetryStart ==
    /\ pc = "idle" /\ ~torn /\ disk # <<>>
    /\ ret' = "recrawl" \/ exit' = "no_failed"

\* the retry command resets, saves and enters the driver loop
RetryResets ==
    /\ pc' = "save" /\ ret' = "recrawl"
    /\ Len(articles') = Len(disk)
    /\ \A i \in DOMAIN disk :
          articles'[i] = IF disk[i].status = "failed"
                         THEN [disk[i] EXCEPT !.status = "pending", !.errors = <<>>]
                         ELSE disk[i]

\* the save of the reset manifest completes and the crawl starts on it
RetryCrawls ==
    (pc = "saving" /\ ret = "recrawl" /\ pc' # "idle") =>
        /\ disk' = articles /\ ~torn'
        /\ articles' = articles
        /\ pc' = "check"

\* C13 as stated: the retry command resets every failed record to pending with
\* an empty error list, leaves every other record unchanged, persists the
\* manifest and then runs the driver loop over it.
C13_RetryAsStated ==
    [][(RetryStart => RetryResets) /\ RetryCrawls]_vars

\* C13, amended: when the manifest has a failed record, the retry command
\* resets every failed record to pending with an empty error list, leaves every
\* field of every other record unchanged, persists the manifest and then runs
\* the driver loop over it; when no record is failed it ends at once, without
\* saving and without running the driver loop.
C13_Retry ==
    [][/\ (RetryStart /\ HasFailed(disk)) => RetryResets
       /\ (RetryStart /\ ~HasFailed(disk)) => (pc' = "idle" /\ disk' = disk)
       /\ RetryCrawls
      ]_vars

\* the reset manifest is being saved: a failed record with errors on disk before,
\* pending with no errors now, next to an extracted record that kept its errors
C13_Witness ==
    /\ pc = "saving" /\ ret = "recrawl"
    /\ Len(articles) = 2
    /\ articles[1].status = "pending" /\ articles[1].errors = <<>>
    /\ articles[2].status = "extracted" /\ articles[2].errors = <<"note">>

\* the queue records processed so far whose status is st
Processed(st) ==
    LET n == IF pc \in {"save", "saving"} THEN idx ELSE idx - 1
    IN  {k \in 1..n : articles[to_process[k]].status = st}

\* C14: a crawl run processes every queued record exactly once, in queue order,
\* whatever the number of failures, and ends when the queue is exhausted; the
\* ok count is the number of processed records with status extracted, the
\* failed count the number with status failed, and at the end their sum is the
\* length of the queue.
C14_Termination ==
    [][/\ InLoop' =>
              /\ stats'.ok = Cardinality(Processed("extracted")')
              /\ stats'.failed = Cardinality(Processed("failed")')
              /\ Processed("extracted")' \cup Processed("failed")'
                     = 1..(IF pc' \in {"save", "saving"} THEN idx' ELSE idx' - 1)
       /\ (InLoop /\ InLoop') =>
              /\ idx' \in {idx, idx + 1}
              /\ idx' = idx + 1 => (pc = "saving" /\ pc' = "download")
              /\ (pc \in {"download", "extract"} /\ pc' \in {"save", "saving"}) =>
                     pc' = "save"
       /\ (pc = "saving" /\ ret = "loop" /\ idx = Len(to_process)) => pc' = "idle"
       /\ exit' = "done" =>
              /\ pc = "saving" /\ idx = Len(to_process)
              /\ stats.ok + stats.failed = Len(to_process)
      ]_vars

\* the last checkpoint of a run over two records, one extracted and one failed
C14_Witness ==
    /\ pc = "saving" /\ ret = "loop"
    /\ idx = 2 /\ Len(to_process) = 2
    /\ stats = [ok |-> 1, failed |-> 1]

OneRecordPerUrl(manifest) ==
    \A i, j \in DOMAIN manifest :
        (i # j /\ manifest[i].url # NoUrl) => manifest[i].url # manifest[j].url

\* C15: in every reachable state no two records of the manifest, on disk or in
\* memory, have the same source URL.
C15_OneRecordPerUrl == OneRecordPerUrl(disk) /\ OneRecordPerUrl(articles)

\* C16: when no fetch endpoint is reachable the run ends with a fatal error
\* before any fetch and before the driver loop changes a record; the driver
\* loop only runs after the endpoint answered, and in it no error of a fetch or
\* of an extraction ends the run: it ends when the queue is exhausted.
C16_OnlyUnreachableIsFatal ==
    [][/\ (pc = "check" /\ cdp' = "down") =>
              /\ exit' = "fatal" /\ pc' = "idle"
              /\ to_process = <<>> /\ idx = 0 /\ attempt = 0
              /\ ~torn /\ articles = disk /\ disk' = disk
       /\ exit' = "fatal" => (pc = "check" /\ cdp' = "down")
       /\ InLoop' => cdp' = "up"
       /\ (InLoop /\ pc \in {"download", "extract"}) =>
              exit' \in {"running", "interrupted", "interrupted_after_checkpoint"}
       /\ (InLoop /\ pc' = "idle") =>
              /\ exit' \in {"done", "interrupted", "interrupted_after_checkpoint"}
              /\ exit' = "done" => idx = Len(to_process)
      ]_vars

\* a crawl over a manifest with a pending record ended fatally
C16_Witness ==
    /\ exit = "fatal" /\ cdp = "down"
    /\ disk # <<>>
    /\ \A i \in DOMAIN disk : disk[i].status = "pending"

IsPrefix(s, t) == Len(s) <= Len(t) /\ SubSeq(t, 1, Len(s)) = s

\* C17: a record's error list only grows while crawl runs work on it: every
\* error recorded by an earlier attempt is still in the list after a later
\* attempt, until the retry command clears the list.
C17_ErrorsAccumulate ==
    [][(InLoop /\ InLoop') =>
           \A i \in DOMAIN articles : IsPrefix(articles[i].errors, articles'[i].errors)
      ]_vars

\* C18: when the markup has no main-content container, or metadata extraction
\* fails, extract_article does not raise and its error list, which becomes the
\* record's, holds a note of the failure.
C18_StructuralErrorsRecorded ==
    (ext_result.done /\ ~faults.mkdir /\ ~faults.content) =>
        /\ page.meta = "raises" =>
              /\ ~ext_result.raised
              /\ "metadata extraction" \in Range(ext_result.errors)
              /\ record.errors = ext_result.errors
        /\ page.container = "none" =>
              /\ ~ext_result.raised
              /\ ext_result.errors # <<>>
              /\ record.errors = ext_result.errors

WriteFailed == faults.raw \/ faults.html \/ faults.md

\* C19: when the write of raw.html, article.html or article.md fails, the error
\* is in the result's error list, which becomes the record's; the record is
\* marked extracted and a crawl run without force does not queue it again.
C19_WriteErrorsKeepProcessed ==
    (ext_result.done /\ ~faults.content /\ ~faults.mkdir /\ WriteFailed) =>
        /\ faults.raw => "save raw.html" \in Range(ext_result.errors)
        /\ faults.html => "build HTML" \in Range(ext_result.errors)
        /\ faults.md => "build Markdown" \in Range(ext_result.errors)
        /\ ~ext_result.raised
        /\ record.errors = ext_result.errors
        /\ record.status = "extracted"
        /\ ~Queued(record, FALSE)

\* the write of article.html alone failed
C19_Witness ==
    /\ ext_result.done
    /\ faults = [content |-> FALSE, mkdir |-> FALSE, raw |-> FALSE, img |-> FALSE,
                 html |-> TRUE, md |-> FALSE]
    /\ record.status = "extracted"
    /\ record.errors = <<"build HTML">>

\* the labels of the shown widgets of a container, in document order
WidgetLabels(c) ==
    LET widget(e) == (IsVideo(e) \/ IsAudio(e)) /\ ~e.hidden
        ws == SelectSeq(c, widget)
    IN  [i \in DOMAIN ws |-> IF ws[i].label = "" THEN "unnamed" ELSE ws[i].label]

\* the labels of the placeholders of a content tree, in document order
PlaceholderLabels(c) ==
    LET placeholder(e) == e.class \in {"video-placeholder", "audio-placeholder"}
        ps == SelectSeq(c, placeholder)
    IN  [i \in DOMAIN ps |-> ps[i].label]

\* C20: every video or audio widget of the main-content container that is not
\* hidden has exactly one placeholder with its label in the cleaned content
\* tree, whatever element carries the widget.
C20_WidgetsKeepPlaceholder ==
    (ext_result.done /\ ~faults.content /\ page.container # "none") =>
        PlaceholderLabels(content) = WidgetLabels(page.elems)

\* the first line of a URL file that holds u
FirstLine(lines, u) ==
    CHOOSE i \in DOMAIN lines : lines[i] = u /\ \A j \in 1..(i - 1) : lines[j] # u

\* C26: parse_urls returns the http(s) lines of the source in the order of
\* their first occurrence and without duplicates, skipping every other line;
\* a source that is itself a URL yields the one-element list of that URL.
C26_ParseUrls ==
    Merged =>
        IF args_source.single
        THEN urls = <<args_source.url>>
        ELSE /\ Range(urls) = Range(args_source.lines) \cap URLS
             /\ \A i, j \in DOMAIN urls :
                   i < j => /\ urls[i] # urls[j]
                            /\ FirstLine(args_source.lines, urls[i])
                                  < FirstLine(args_source.lines, urls[j])

\* a file whose two lines are the same URL
C26_Witness ==
    /\ Merged
    /\ ~args_source.single
    /\ Len(args_source.lines) = 2
    /\ args_source.lines[1] = args_source.lines[2]
    /\ Len(urls) = 1

\* a call after the first is running or has returned
LaterRun == img_run >= 2

\* a request is being issued
Requesting == mpc = "request" /\ img_reqs' = img_reqs + 1

SecondRunKept ==
    (LaterRun /\ mpc = "idle") =>
        /\ \A i \in DOMAIN soup_imgs :
              first_run.imgs[i].kind # "http" => soup_imgs[i] = first_run.imgs[i]
        /\ first_run.stats.failed = 0 => (img_reqs = 0 /\ soup_imgs = first_run.imgs)

C22_BoundedRetry ==
    [][/\ Requesting =>
             /\ img_attempt <= IMG_RETRY
             /\ IF img_resp' = "image"
                THEN /\ CurFile \in assets'
                     /\ soup_imgs' = [soup_imgs EXCEPT ![img_pos] = Local(CurFile)]
                     /\ mpc' = "next" /\ img_pos' = img_pos + 1
                ELSE /\ img_attempt' = img_attempt + 1
                     /\ soup_imgs' = soup_imgs /\ assets' = assets
                     /\ img_stats' = img_stats
       /\ img_stats'.failed # img_stats.failed =>
             \/ mpc = "idle"
             \/ /\ img_attempt = IMG_RETRY + 1
                /\ img_stats'.failed = img_stats.failed + 1
                /\ soup_imgs' = soup_imgs /\ CurSrc.kind = "http"
                /\ mpc' = "next" /\ img_pos' = img_pos + 1
       /\ (mpc = "request" /\ mpc' # "request") =>
             (soup_imgs'[img_pos].kind = "local" \/ img_stats'.failed = img_stats.failed + 1)
      ]_vars

\* the first image was given up after a last response that was too small, the
\* second was then downloaded
C22_Witness ==
    /\ img_run = 1 /\ mpc = "idle"
    /\ Len(soup_imgs) = 2
    /\ soup_imgs[1].kind = "http" /\ soup_imgs[2].kind = "local"
    /\ img_stats.failed = 1 /\ img_stats.ok = 1
    /\ img_reqs = IMG_RETRY + 2

\* C23: a later call names every image as the first call named it.
C23_NamesStable ==
    LaterRun =>
        \A i \in DOMAIN img_names :
            (img_names[i] # NoFile /\ first_run.names[i] # NoFile)
                => img_names[i] = first_run.names[i]

\* the k-th smallest element of a set of numbers
Kth(S, k) == CHOOSE x \in S : Cardinality({y \in S : y < x}) = k - 1

\* the pieces of t between the separators at the positions in P
SplitAt(t, P) ==
    LET B == P \cup {0, Len(t) + 1}
    IN  [k \in 1..(Cardinality(P) + 1) |-> SubSeq(t, Kth(B, k) + 1, Kth(B, k + 1) - 1)]

\* the lines of a Markdown text
Lines(md) == SplitAt(md, {i \in DOMAIN md : md[i] = "\n"})

\* the pieces of a table line between its pipes that are not escaped
Pieces(line) ==
    SplitAt(line, {i \in DOMAIN line : line[i] = "|" /\ (i = 1 \/ line[i - 1] # "\\")})

\* a table line starts and ends with a pipe
IsTableLine(line) ==
    Len(Pieces(line)) >= 2 /\ Pieces(line)[1] = <<>> /\ Pieces(line)[Len(Pieces(line))] = <<>>

\* the cells of a table line, without the blanks around them
Cells(line) == [k \in 1..(Len(Pieces(line)) - 2) |-> Strip(Pieces(line)[k + 1])]

Unescape(t) ==
    KeepAt(t, {i \in DOMAIN t : ~(t[i] = "\\" /\ i < Len(t) /\ t[i + 1] = "|")})

\* the cells of the widest row
Width(rows) ==
    CHOOSE n \in {Len(rows[i]) : i \in DOMAIN rows} : \A i \in DOMAIN rows : Len(rows[i]) <= n

\* C25: a table with at least one row (and one cell) is rendered as one line
\* per source row plus the separator; every line has as many cells as the
\* widest source row; the first line is the first row, the second has only ---
\* cells, the others are the remaining rows in order; a short row is padded
\* with empty cells at its end; every pipe of a cell is escaped.
C25_TableShape ==
    (/\ rendered /\ Len(content_soup) = 1 /\ content_soup[1].tag = "table"
     /\ content_soup[1].rows # <<>> /\ Width(content_soup[1].rows) >= 1) =>
        LET rows == content_soup[1].rows
            n == Width(rows)
            lines == Lines(md_body)
        IN  /\ Len(lines) = Len(rows) + 1
            /\ \A l \in DOMAIN lines :
                  IsTableLine(lines[l]) /\ Len(Cells(lines[l])) = n
            /\ Cells(lines[2]) = [k \in 1..n |-> <<"---">>]
            /\ \A r \in DOMAIN rows :
                  \A k \in 1..n :
                      Unescape(Cells(lines[IF r = 1 THEN 1 ELSE r + 1])[k])
                          = IF k <= Len(rows[r]) THEN Strip(rows[r][k]) ELSE <<>>

\* C29: the Markdown body has no three newlines in a row and no line of it
\* ends with a blank.
C29_BodyIsTidy ==
    rendered =>
        /\ \A i \in 1..(Len(md_body) - 2) :
              ~(md_body[i] = "\n" /\ md_body[i + 1] = "\n" /\ md_body[i + 2] = "\n")
        /\ \A i \in DOMAIN md_body :
              md_body[i] = " " => (i < Len(md_body) /\ md_body[i + 1] # "\n")

\* a occurs in b as a run of neighbouring elements
IsInfix(a, b) == \E i \in 0..(Len(b) - Len(a)) : SubSeq(b, i + 1, i + Len(a)) = a

\* the word of the first class that is a language class
FirstLanguage(classes) ==
    LET language(c) == c.language
        ls == SelectSeq(classes, language)
    IN  IF ls = <<>> THEN <<>> ELSE <<ls[1].word>>

\* C30: the document holds every code block as its fence line with the
\* language of the first language-X class, its text unchanged, and the closing
\* fence.
C30_CodeVerbatim ==
    rendered =>
        \A i \in DOMAIN content_soup :
            content_soup[i].tag = "pre" =>
                IsInfix(<<"\n", Fence>> \o FirstLanguage(content_soup[i].classes) \o <<"\n">>
                            \o content_soup[i].text \o <<"\n", Fence>>,
                        <<"\n">> \o MdHeader \o md_body)

\* C27: the Fetcher is invoked for a record that is not the first only after
\* a pacing delay within the window was slept since the record before it,
\* however that record ended.
C27_DelayBeforeEveryFetch ==
    (ppc = "fetch" /\ qidx > 0) => delayed \in DELAY_MIN..DELAY_MAX

\* C28: when the Fetcher is invoked for the record of 0-based index i, the run
\* has taken one long pause for each positive multiple of PAUSE_EVERY up to i,
\* and none since the fetch before, unless i is such a multiple; none is taken
\* anywhere else, however the records ended.
C28_LongPauseEveryN ==
    /\ ppc = "fetch" => paused = qidx \div PAUSE_EVERY
    /\ ppc # "fetch" => paused = (IF qidx = 0 THEN 0 ELSE (qidx - 1) \div PAUSE_EVERY)

\* the record of index PAUSE_EVERY is about to be fetched after a long pause,
\* the record before it having failed to download
C28_Witness ==
    /\ ppc = "fetch" /\ qidx = PAUSE_EVERY
    /\ paused = 1
    /\ last_outcome = "download_failed"

\* the items of a list that render non-empty, in document order
ShownItems(items) ==
    LET shown(li) == Strip(CollapseBlanks(li)) # <<>>
    IN  SelectSeq(items, shown)

\* C31: a list is rendered as one line per item that renders non-empty, in
\* document order; the k-th line of an unordered list starts with "- ", the
\* k-th line of an ordered list with "k. ", dropped items leaving no gap.
C31_ListLines ==
    (rendered /\ Len(content_soup) = 1 /\ content_soup[1].tag \in {"ul", "ol"}) =>
        LET shown == ShownItems(content_soup[1].rows)
            line(k) == (IF content_soup[1].tag = "ol"
                        THEN <<ToString(k), ".", " ">> ELSE <<"-", " ">>)
                           \o Strip(CollapseBlanks(shown[k]))
        IN  md_body = Join([k \in DOMAIN shown |-> line(k)], <<"\n">>)

\* C32: the merged manifest has exactly one record per URL of the new list: a
\* record of the existing manifest whose URL is not in the list is gone,
\* whatever its status, and once the merge is saved the file holds the merged
\* manifest (one record after a single-URL source).
C32_MergeDropsUnlisted ==
    Merged =>
        /\ Len(articles) = Len(urls)
        /\ \A j \in DOMAIN existing :
              (\A i \in DOMAIN urls : urls[i] # existing[j].url)
                  => \A i \in DOMAIN articles : articles[i].url # existing[j].url
        /\ pc = "check" => (disk = articles /\ Len(disk) = Len(urls))

\* a single-URL crawl over a manifest of two records, the other one extracted,
\* has saved its merge
C32_Witness ==
    /\ Merged /\ args_source.single /\ pc = "check"
    /\ Len(existing) = 2 /\ Len(disk) = 1
    /\ \E j \in DOMAIN existing :
          existing[j].url # args_source.url /\ existing[j].status = "extracted"

\* the Fetcher calls made so far for the record at hand
FetcherCalls == fails + anti + (IF raw_html THEN 1 ELSE 0)

\* C33: whatever the Fetcher answers, download_raw_html_cdp calls it at most
\* MAX_RETRIES + 1 times for a record, an anti-bot page counting like any
\* other answer; after that many calls without a page its only step is to
\* return, and every download comes to an end.
C33_DownloadBounded ==
    /\ [][/\ pc' \in {"download", "extract"} => FetcherCalls' <= MAX_RETRIES + 1
          /\ (pc = "download" /\ FetcherCalls' # FetcherCalls /\ pc' # "idle") =>
                 (FetcherCalls' = FetcherCalls + 1 /\ FetcherCalls <= MAX_RETRIES)
          /\ (pc = "download" /\ FetcherCalls = MAX_RETRIES + 1) => pc' \in {"save", "idle"}
         ]_vars
    /\ [](pc = "download" => <>(pc # "download"))

\* the anti-bot page was shown MAX_RETRIES + 1 times and the download returned
C33_Witness ==
    /\ pc = "save" /\ ret = "loop"
    /\ anti = MAX_RETRIES + 1 /\ fails = 0
    /\ articles[cur].status = "failed"

\* a checkpoint completes
Checkpointed == pc = "saving" /\ torn /\ ~torn'

\* C34: a write of another process to manifest.json does not reach the crawl's
\* in-memory manifest, and the crawl's next checkpoint leaves in the file the
\* in-memory manifest alone: what the other process wrote is lost.
C34_LastWriterWins ==
    [][/\ foreign' # foreign => (articles' = articles /\ to_process' = to_process)
       /\ Checkpointed => disk' = articles
      ]_vars

\* during the first run another process saved a record as extracted; the run
\* is over and the file has the record pending, as the crawl had it
C34_Witness ==
    /\ exit = "done" /\ runs = 1 /\ ~torn
    /\ \E i \in DOMAIN disk :
          /\ i \in DOMAIN foreign
          /\ foreign[i].status = "extracted" /\ disk[i].status = "pending"

\* C35: the retry command resets the failed records and saves the manifest
\* before the fetch endpoint is checked; when the endpoint does not answer the
\* command ends with a fatal error and the file, left as the reset wrote it,
\* has no failed record and none of the errors of the records that were failed.
C35_ResetSavedBeforeCheck ==
    [][/\ (pc = "idle" /\ pc' # "idle" /\ cmd' = "retry") =>
              /\ pc' = "save" /\ cdp' = "unchecked"
              /\ ~HasFailed(articles')
              /\ \A i \in DOMAIN disk :
                    disk[i].status = "failed" => articles'[i].errors = <<>>
       /\ (cmd = "retry" /\ ret = "recrawl" /\ pc \in {"save", "saving"} /\ pc' # "idle") =>
              (articles' = articles /\ cdp' = "unchecked")
       /\ (cmd = "retry" /\ pc = "check") =>
              /\ ~torn /\ disk = articles /\ ~HasFailed(disk)
              /\ disk' = disk /\ ~torn'
              /\ cdp' = "down" => exit' = "fatal"
       /\ (cmd = "retry" /\ exit' = "fatal") => pc = "check"
      ]_vars

\* a retry ended with the fatal error; the file has a pending record with no error
C35_Witness ==
    /\ cmd = "retry" /\ exit = "fatal" /\ cdp = "down"
    /\ ~torn /\ ~HasFailed(disk)
    /\ \E i \in DOMAIN disk : disk[i].status = "pending" /\ disk[i].errors = <<>>

\* a retry command starts on a manifest without a failed record
RetryFindsNone ==
    /\ pc = "idle" /\ cmd' = "retry" /\ ~torn
    /\ \A i \in DOMAIN disk : disk[i].status # "failed"

\* the pending records of the manifest the loop is about to start on
PendingAt(manifest) == {i \in DOMAIN manifest : manifest[i].status = "pending"}

\* C36 as stated: without a failed record the retry command returns, the
\* manifest and its pending records untouched; with one, every pending record
\* is in the queue of the driver loop that follows.
C36_RetryAsStated ==
    [][/\ RetryFindsNone => (pc' = "idle" /\ disk' = disk /\ ~torn')
       /\ (cmd = "retry" /\ QueueBuilt') => PendingAt(articles') \subseteq Range(to_process')
      ]_vars

\* C36, amended: without a failed record the retry command returns, the
\* manifest and its pending records untouched; with one, the queue of the
\* driver loop that follows holds, next to the reset records, every record
\* that was already pending and can be crawled (a URL, in the IMA crawl
\* media_state = 2), up to the first limit queue entries when limit > 0.
C36_Retry ==
    [][/\ RetryFindsNone => (pc' = "idle" /\ disk' = disk /\ ~torn')
       /\ (cmd = "retry" /\ QueueBuilt') =>
              \A i \in PendingAt(articles') :
                  \/ ~Crawlable(articles'[i])
                  \/ i \in Range(to_process')
                  \/ /\ limit' > 0 /\ Len(to_process') = limit'
                     /\ i > to_process'[Len(to_process')]
       /\ (cmd = "retry" /\ pc = "check" /\ cdp' = "up" /\ pc' = "idle") =>
              \A i \in PendingAt(articles) : ~Crawlable(articles[i])
      ]_vars

\* a retry found no failed record and returned; the file still has a pending one
C36_Witness ==
    /\ cmd = "retry" /\ exit = "no_failed" /\ pc = "idle"
    /\ ~torn
    /\ \E i \in DOMAIN disk : disk[i].status = "pending"

\* the error lists an extraction can report as non-fatal
Reported == {ResultOf(result).errors : result \in {"notes"}}

RECURSIVE SumOf(_)
SumOf(seq) == IF seq = <<>> THEN 0 ELSE Head(seq) + SumOf(Tail(seq))

\* the <img> nodes of the tree that have a remote source
RemoteNodes(imgs) == {i \in DOMAIN imgs : imgs[i].kind = "http"}

\* the remote nodes the running call has not counted yet
Uncounted ==
    {i \in RemoteNodes(soup_imgs) : i > img_pos \/ (i = img_pos /\ mpc = "next")}

\* download_images has returned
Returned == mpc = "idle" /\ img_run > 0

\* C38: the statistics download_images returns satisfy total = ok + failed
\* and skipped <= ok; total is the number of image nodes with a remote source
\* (the call starts counting at zero with every remote node of its tree ahead,
\* and each step keeps total plus the remote nodes still ahead the same, so
\* none is left at the return; the first call's tree is the parsed markup);
\* bytes is the sum of the sizes of the images this call downloaded, a skipped
\* file adding nothing
C38_StatsAddUp ==
    /\ [](Returned =>
            /\ img_stats.total = img_stats.ok + img_stats.failed
            /\ img_stats.skipped <= img_stats.ok
            /\ Uncounted = {}
            /\ img_run = 1 => img_stats.total = Cardinality(RemoteNodes(raw_imgs))
            /\ img_stats.bytes = SumOf(img_data)
            /\ Cardinality({i \in DOMAIN img_data : img_data[i] > 0})
                  = img_stats.ok - img_stats.skipped)
    /\ [][/\ (mpc = "idle" /\ mpc' # "idle") =>
                /\ img_stats' = NoStats
                /\ Uncounted' = RemoteNodes(soup_imgs')
          /\ mpc # "idle" =>
                /\ img_stats'.total + Cardinality(Uncounted')
                      = img_stats.total + Cardinality(Uncounted)
                /\ img_stats'.skipped # img_stats.skipped =>
                      /\ img_stats'.bytes = img_stats.bytes
                      /\ img_data' = img_data
                /\ img_stats'.bytes # img_stats.bytes =>
                      /\ img_data[img_pos] = 0
                      /\ img_data'[img_pos] >= MinImgBytes
                      /\ img_stats'.bytes = img_stats.bytes + img_data'[img_pos]]_vars

\* a later call has returned with one image skipped and another downloaded
C38_Witness ==
    /\ Returned /\ img_run > 1
    /\ img_stats.skipped = 1 /\ img_stats.ok = 2 /\ img_stats.total = 2
    /\ img_stats.bytes >= MinImgBytes

\* an IMA record the crawl cannot fetch: not ready, or without a source path
Unfetchable(a) == a.media_state # READY \/ a.url = NoUrl

\* record b is record a as far as the crawl's own fields go
SameOutcome(a, b) ==
    /\ b.status = a.status /\ b.errors = a.errors /\ b.dir_name = a.dir_name
    /\ b.media_state = a.media_state /\ b.url = a.url

\* a crawl or retry phase is at a record of its queue
AtQueueRecord ==
    /\ cmd \in {"crawl", "retry"} /\ idx >= 1
    /\ pc \in {"download", "extract"} \/ (pc \in {"save", "saving"} /\ ret = "loop")

\* C39: in the IMA crawl a record whose media_state is not 2 or whose source
\* path is empty is never in the queue, with or without force; a crawl or
\* retry phase loads it as the file has it, no step of the phase changes its
\* status, error list or output directory in memory, and every write of the
\* phase puts the in-memory manifest into the file
C39_UnfetchableUntouched ==
    /\ [](AtQueueRecord =>
            \A k \in DOMAIN to_process :
                /\ to_process[k] \in DOMAIN articles
                /\ ~Unfetchable(articles[to_process[k]]))
    /\ [][cmd' \in {"crawl", "retry"} =>
            /\ (pc = "idle" /\ pc' # "idle") =>
                  /\ Len(articles') = Len(disk)
                  /\ \A i \in DOMAIN disk :
                        Unfetchable(disk[i]) => SameOutcome(disk[i], articles'[i])
            /\ (pc # "idle" /\ pc' # "idle") =>
                  /\ Len(articles') = Len(articles)
                  /\ \A i \in DOMAIN articles :
                        Unfetchable(articles[i]) => SameOutcome(articles[i], articles'[i])
            /\ ~torn' => disk' = IF torn THEN articles ELSE disk]_vars

\* a retry after a crawl has gone through its queue, and the manifest still
\* has an article that is not ready, pending as the listing made it
C39_Witness ==
    /\ provider = "ima" /\ cmd = "retry" /\ exit = "done" /\ ~torn
    /\ \E i, j \in DOMAIN disk :
          /\ disk[i].media_state # READY /\ disk[i].url # NoUrl
          /\ disk[i].status = "pending" /\ disk[i].errors = <<>>
          /\ disk[j].status = "extracted"

====
